---- MODULE Spec2Model ----
(***************************************************************************)
(* The /block endpoints of the HTTP API (http/src/v0/block.rs): get, put,  *)
(* rm and stat over a shared block store.                                  *)
(*                                                                         *)
(* Requests are served one after the other (every claim is about what one  *)
(* request does); inside a batch removal the remove operations of the      *)
(* batch run concurrently and settle in any order.                         *)
(*                                                                         *)
(* Abstractions:                                                           *)
(*  - a payload is the sequence of the body chunks it was collected from;  *)
(*    a chunk has a symbol and a size in bytes;                            *)
(*  - a digest function is collision free: the digest of a payload is the  *)
(*    payload tagged with the function's name;                             *)
(*  - an identifier string is the identifier tagged with the form it is    *)
(*    written in ("canonical" is what to_string produces, "alt" another    *)
(*    encoding that parses to the same identifier, "malformed" does not    *)
(*    parse);                                                              *)
(*  - an Option is a sequence of length 0 (None) or 1 (Some).              *)
(***************************************************************************)
EXTENDS Integers, Sequences, FiniteSets, TLC

\* ------------------------------------------------------------------ bounds
\* requests served in one behaviour
MaxRequests == 3
\* identifiers in one rm batch
MaxArgs == 3
\* identifiers in one rm batch when the endpoints are served in turn
ServedArgs == 1
\* chunks one request body can deliver
MaxChunks == 3

\* the bound inner_put hands to try_only_named_multipart: 1024 * 1024
MaxBytes == 1048576

\* ------------------------------------------------------------------ values
None == <<>>
Some(x) == <<x>>

\* body chunks: "a" is half the bound, "b" is one byte more than the bound
ChunkPool == { [sym |-> "a", size |-> 524288], [sym |-> "b", size |-> 1048577] }

RECURSIVE ByteLen(_)
\* data.len(): the number of bytes of a payload
ByteLen(data) == IF data = <<>> THEN 0 ELSE Head(data).size + ByteLen(Tail(data))

\* multihash::Sha2_256::digest / Sha2_512::digest
Digest(fn, data) == [code |-> fn, digest |-> data]

\* Cid::new(version, codec, hash): a V0 identifier is dag-pb over sha2-256
CidNew(version, codec, hash) ==
  IF version = "V0" /\ codec # "DagProtobuf" THEN [ok |-> FALSE, err |-> "invalid cid v0 codec", cid |-> None]
  ELSE IF version = "V0" /\ hash.code # "sha2-256" THEN [ok |-> FALSE, err |-> "invalid cid v0 multihash", cid |-> None]
  ELSE [ok |-> TRUE, err |-> "", cid |-> Some([version |-> version, codec |-> codec, hash |-> hash])]

\* cid.to_string(): the canonical string of an identifier
CidToString(cid) == [form |-> "canonical", cid |-> Some(cid)]

\* Cid::try_from(&str) / str::parse::<Cid>()
CidTryFrom(s) ==
  IF s.form = "malformed" THEN [ok |-> FALSE, err |-> "failed to parse cid", cid |-> None]
  ELSE [ok |-> TRUE, err |-> "", cid |-> s.cid]

\* a string that is no identifier
Malformed == [form |-> "malformed", cid |-> None]

\* an identifier no Put of the model produces a block for
AbsentCid == [version |-> "V1", codec |-> "DagCBOR", hash |-> Digest("sha2-256", <<>>)]

\* ------------------------------------------------------------------ state
VARIABLES
  store,     \* the block store: identifier -> payload
  req,       \* the endpoint serving the current request, or "idle"
  nreq,      \* requests started so far
  calls,     \* store operations the current request has invoked
  resp,      \* the reply of the current get/put/stat request
  query,     \* GetQuery / StatQuery of the current request
  put,       \* inner_put's locals and position
  rm,        \* rm_query's locals and position
  putLog,    \* history: Key -> the payload collected by the successful Puts of Key not removed since
  hist       \* history: the request served last, if it was a successful Put and was recorded

vars == <<store, req, nreq, calls, resp, query, put, rm, putLog, hist>>

\* the store with no block
EmptyStore == [c \in {} |-> <<>>]

NoCalls == [get |-> 0, put |-> 0, remove |-> <<>>]
NoResp == [kind |-> "none", msg |-> "", data |-> <<>>, key |-> None, size |-> 0]
NoQuery == [arg |-> None, pc |-> "none", cid |-> None]
NoPut == [pc |-> "none", opts |-> None, boundary |-> None, field |-> "", buffer |-> <<>>,
          chunksRead |-> 0, block |-> None, before |-> EmptyStore]
NoRm == [pc |-> "none", args |-> <<>>, force |-> FALSE, quiet |-> FALSE, cids |-> <<>>,
         ops |-> <<>>, queued |-> {}, collected |-> <<>>, out |-> <<>>, lastFirst |-> FALSE, firstLast |-> FALSE,
         err |-> "", before |-> EmptyStore]

Init ==
  /\ store = EmptyStore
  /\ req = "idle"
  /\ nreq = 0
  /\ calls = NoCalls
  /\ resp = NoResp
  /\ query = NoQuery
  /\ put = NoPut
  /\ rm = NoRm
  /\ putLog = EmptyStore
  /\ hist = None

\* ------------------------------------------------------------------ store
\* the block store's operations; each may also fail with an I/O error
Has(s, cid) == cid \in DOMAIN s

\* the store after put(Block {cid, data}): a duplicate is a no-op
StorePut(s, cid, data) ==
  IF Has(s, cid) THEN s ELSE [c \in DOMAIN s \cup {cid} |-> IF c = cid THEN data ELSE s[c]]

\* the store after a successful remove(cid)
StoreRemove(s, cid) == [c \in DOMAIN s \ {cid} |-> s[c]]

\* the identifier strings a caller may send: those of the stored blocks (a V1
\* identifier also in another encoding), one of an absent block and one that
\* does not parse
ArgPool ==
  { CidToString(c) : c \in DOMAIN store } \cup
  { [form |-> "alt", cid |-> Some(c)] : c \in { x \in DOMAIN store : x.version = "V1" } } \cup
  { CidToString(AbsentCid), Malformed }

CanStart == req = "idle" /\ nreq < MaxRequests

\* the connection of a finished request closes: its state is dropped
Close ==
  /\ req # "idle"
  /\ \/ req \in {"get", "stat", "put"} /\ resp.kind # "none"
     \/ req = "rm" /\ rm.pc \in {"rejected", "done", "cancelled"}
  /\ req' = "idle"
  /\ calls' = NoCalls /\ resp' = NoResp /\ query' = NoQuery /\ put' = NoPut /\ rm' = NoRm
  /\ UNCHANGED <<hist, store, nreq, putLog>>

\* Close, with the request that ends recorded in the history
CloseRecorded ==
  /\ req # "idle"
  /\ \/ req \in {"get", "stat", "put"} /\ resp.kind # "none"
     \/ req = "rm" /\ rm.pc \in {"rejected", "done", "cancelled"}
  /\ req' = "idle"
  /\ calls' = NoCalls /\ resp' = NoResp /\ query' = NoQuery /\ put' = NoPut /\ rm' = NoRm
  /\ hist' = IF req = "put" /\ resp.kind = "json"
             THEN Some([opts |-> put.opts[1], data |-> put.buffer, key |-> resp.key[1], store |-> store])
             ELSE None
  /\ UNCHANGED <<store, nreq, putLog>>

\* ------------------------------------------------------------------ block/rm
RECURSIVE SeqsUpTo(_, _)
\* the non-empty sequences over S of length at most n
SeqsUpTo(S, n) ==
  IF n = 0 THEN {} ELSE
    LET shorter == SeqsUpTo(S, n - 1)
    IN  { <<x>> : x \in S } \cup shorter \cup { Append(q, x) : q \in shorter, x \in S }

\* a request arrives at block/rm with its RmOptions: at most n identifiers
RmStart(n) ==
  /\ CanStart
  /\ \E args \in SeqsUpTo(ArgPool, n), force \in BOOLEAN, quiet \in BOOLEAN :
       rm' = [NoRm EXCEPT !.pc = "parsing", !.args = args, !.force = force, !.quiet = quiet,
                          !.before = store]
  /\ req' = "rm"
  /\ nreq' = nreq + 1
  /\ UNCHANGED <<hist, store, calls, resp, query, put, putLog>>

\* filter_map(.. .ok()) in its place: the strings that do not parse are skipped
ParseAllSkipping(args) ==
  LET good == SelectSeq(args, LAMBDA a : CidTryFrom(a).ok)
  IN  [ok |-> TRUE, err |-> "", cids |-> [i \in 1..Len(good) |-> CidTryFrom(good[i]).cid[1]]]

\* args.into_iter().map(Cid::try_from).collect::<Result<Vec<_>, _>>()
ParseAll(args) ==
  LET parsed == [i \in 1..Len(args) |-> CidTryFrom(args[i])]
      bad == { i \in 1..Len(args) : ~parsed[i].ok }
  IN  IF bad # {}
      THEN [ok |-> FALSE, err |-> parsed[CHOOSE i \in bad : \A j \in bad : i <= j].err, cids |-> <<>>]
      ELSE [ok |-> TRUE, err |-> "", cids |-> [i \in 1..Len(args) |-> parsed[i].cid[1]]]

\* rm_query up to the point where the futures exist; none has been polled yet
RmParse ==
  /\ req = "rm" /\ rm.pc = "parsing"
  /\ LET p == ParseAll(rm.args)
     IN  rm' = IF p.ok
               THEN [rm EXCEPT !.pc = "running", !.cids = p.cids,
                               !.ops = [i \in 1..Len(p.cids) |-> "unissued"]]
               ELSE [rm EXCEPT !.pc = "rejected", !.err = p.err]
  /\ UNCHANGED <<hist, store, req, nreq, calls, resp, query, put, putLog>>

\* .then() chaining in its place: a future is first polled once every earlier one has settled
RmIssueSequential ==
  /\ req = "rm" /\ rm.pc = "running"
  /\ \E i \in 1..Len(rm.ops) :
       /\ rm.ops[i] = "unissued"
       /\ \A j \in 1..(i - 1) : rm.ops[j] \notin {"unissued", "pending"}
       /\ rm' = [rm EXCEPT !.ops[i] = "pending"]
       /\ calls' = [calls EXCEPT !.remove = Append(@, rm.cids[i])]
  /\ UNCHANGED <<hist, store, req, nreq, resp, query, put, putLog>>

\* the first poll of the future at the next position: ipfs.remove_block(cid) is invoked
RmIssue ==
  /\ req = "rm" /\ rm.pc = "running"
  /\ \E i \in 1..Len(rm.ops) :
       /\ rm.ops[i] = "unissued"
       /\ \A j \in 1..(i - 1) : rm.ops[j] # "unissued"
       /\ rm' = [rm EXCEPT !.ops[i] = "pending"]
       /\ calls' = [calls EXCEPT !.remove = Append(@, rm.cids[i])]
  /\ UNCHANGED <<hist, store, req, nreq, resp, query, put, putLog>>

\* what the store may answer to remove(cid)
RemoveOutcomes(s, cid) == IF Has(s, cid) THEN {"ok", "io error"} ELSE {"block not found", "io error"}

\* ipfs.remove_block(cid.clone()).map_err(move |e| (cid, e)): the future's output
RemoveResult(i, cid, outcome) ==
  [index |-> i, ok |-> outcome = "ok", cid |-> cid, err |-> IF outcome = "ok" THEN "" ELSE outcome]

\* FuturesUnordered in its place: any completed output may be handed out next
NextReadyUnordered(queued, collected) == queued

\* the outgoing index compared with the count of outputs handed out so far
NextReadyOffByOne(queued, collected) == { r \in queued : r.index = Len(collected) }

\* FuturesOrdered: the completed outputs that may be handed out next are those
\* of the next outgoing index
NextReady(queued, collected) == { r \in queued : r.index = Len(collected) + 1 }

\* try_collect in its place: the collection is over at the first failed output
CollectDoneTry(collected, n) ==
  Len(collected) = n \/ \E i \in 1..Len(collected) : ~collected[i].ok

\* .collect::<Vec<_>>().await is over once the Vec holds the output of every future
CollectDone(collected, n) == Len(collected) = n

RECURSIVE Drain(_, _)
\* futs.collect::<Vec<_>>(): takes every output the ordered queue hands out
Drain(queued, collected) ==
  LET ready == NextReady(queued, collected)
  IN  IF ready = {} THEN [queued |-> queued, collected |-> collected]
      ELSE LET r == CHOOSE x \in ready : TRUE
           IN  Drain(queued \ {r}, Append(collected, r))

\* a failed remove put back to be invoked again, once per batch
RmSettleRetry(i) ==
  /\ req = "rm" /\ rm.pc = "running"
  /\ i \in 1..Len(rm.ops) /\ rm.ops[i] = "pending"
  /\ \E outcome \in RemoveOutcomes(store, rm.cids[i]) :
       LET d == Drain(rm.queued \cup {RemoveResult(i, rm.cids[i], outcome)}, rm.collected)
       IN  IF outcome # "ok" /\ Len(calls.remove) <= Len(rm.cids)
           THEN /\ rm' = [rm EXCEPT !.ops[i] = "unissued"]
                /\ UNCHANGED <<store, putLog>>
           ELSE /\ store' = IF outcome = "ok" THEN StoreRemove(store, rm.cids[i]) ELSE store
                /\ putLog' = IF outcome = "ok"
                             THEN [k \in DOMAIN putLog \ {CidToString(rm.cids[i])} |-> putLog[k]]
                             ELSE putLog
                /\ rm' = [rm EXCEPT !.ops[i] = outcome,
                                    !.queued = d.queued,
                                    !.collected = d.collected,
                                    !.pc = IF CollectDone(d.collected, Len(rm.cids)) THEN "streaming" ELSE "running"]
  /\ UNCHANGED <<hist, req, nreq, calls, resp, query, put>>

\* the remove operation of position i settles; the collect future is polled
\* and completes once it holds every output
RmSettle(i) ==
  /\ req = "rm" /\ rm.pc = "running"
  /\ i \in 1..Len(rm.ops) /\ rm.ops[i] = "pending"
  /\ \E outcome \in RemoveOutcomes(store, rm.cids[i]) :
       LET d == Drain(rm.queued \cup {RemoveResult(i, rm.cids[i], outcome)}, rm.collected)
       IN  /\ store' = IF outcome = "ok" THEN StoreRemove(store, rm.cids[i]) ELSE store
           /\ putLog' = IF outcome = "ok"
                        THEN [k \in DOMAIN putLog \ {CidToString(rm.cids[i])} |-> putLog[k]]
                        ELSE putLog
           /\ rm' = [rm EXCEPT !.ops[i] = outcome,
                               !.lastFirst = @ \/ (i = Len(rm.ops) /\ \A j \in 1..(i - 1) : rm.ops[j] \in {"unissued", "pending"}),
                               !.firstLast = i = 1 /\ \A j \in 2..Len(rm.ops) : rm.ops[j] \notin {"unissued", "pending"},
                               !.queued = d.queued,
                               !.collected = d.collected,
                               !.pc = IF CollectDone(d.collected, Len(rm.cids)) THEN "streaming" ELSE "running"]
  /\ UNCHANGED <<hist, req, nreq, calls, resp, query, put>>

\* the force test left out: a failure always reports e.to_string()
ToRmResponseNoForce(result, force) ==
  [hash |-> CidToString(result.cid), error |-> result.err]

\* the first map of rm_query: a result becomes an RmResponse
ToRmResponse(result, force) ==
  IF result.ok
  THEN [hash |-> CidToString(result.cid), error |-> ""]
  ELSE [hash |-> CidToString(result.cid), error |-> IF force THEN "" ELSE result.err]

\* serde_json::to_string(&response), PascalCase field names
ToJson(response) == [Error |-> response.error, Hash |-> response.hash]

\* the quiet test left out: every item is the JSON text and a newline
ToLineNotQuiet(response, quiet) == <<ToJson(response), "\n">>

\* the last map of rm_query: the bytes of one stream item
ToLine(response, quiet) == IF quiet THEN <<>> ELSE <<ToJson(response), "\n">>

\* a failed removal tried once more when force is set
RmPullRetryForced ==
  /\ req = "rm" /\ rm.pc = "streaming"
  /\ Len(rm.out) < Len(rm.collected)
  /\ LET r == rm.collected[Len(rm.out) + 1]
     IN  /\ rm' = [rm EXCEPT !.out = Append(@, ToLine(ToRmResponse(r, rm.force), rm.quiet))]
         /\ calls' = IF rm.force /\ ~r.ok THEN [calls EXCEPT !.remove = Append(@, r.cid)] ELSE calls
  /\ UNCHANGED <<hist, store, req, nreq, resp, query, put, putLog>>

\* the consumer polls the StreamResponse: the iterator maps the next result
RmPull ==
  /\ req = "rm" /\ rm.pc = "streaming"
  /\ Len(rm.out) < Len(rm.collected)
  /\ rm' = [rm EXCEPT !.out = Append(@, ToLine(ToRmResponse(rm.collected[Len(rm.out) + 1], rm.force), rm.quiet))]
  /\ UNCHANGED <<hist, store, req, nreq, calls, resp, query, put, putLog>>

\* the consumer polls the exhausted iterator: the stream ends
RmEnd ==
  /\ req = "rm" /\ rm.pc = "streaming"
  /\ Len(rm.out) = Len(rm.collected)
  /\ rm' = [rm EXCEPT !.pc = "done"]
  /\ UNCHANGED <<hist, store, req, nreq, calls, resp, query, put, putLog>>

\* a drop that undoes the removals of the batch
RmCancelRollback ==
  /\ req = "rm" /\ rm.pc \in {"running", "streaming"}
  /\ rm' = [rm EXCEPT !.pc = "cancelled", !.queued = {}, !.collected = <<>>]
  /\ store' = rm.before
  /\ UNCHANGED <<hist, req, nreq, calls, resp, query, put, putLog>>

\* the request is dropped before completion: the futures or the stream are dropped
RmCancel ==
  /\ req = "rm" /\ rm.pc \in {"running", "streaming"}
  /\ rm' = [rm EXCEPT !.pc = "cancelled", !.queued = {}, !.collected = <<>>]
  /\ UNCHANGED <<hist, store, req, nreq, calls, resp, query, put, putLog>>

\* ------------------------------------------------------------------ block/put
\* the query strings the model sends: absent, known names and an unknown one
FormatInputs == { None, Some("raw"), Some("bogus") }
MhtypeInputs == { None, Some("sha2-512"), Some("bogus") }
VersionInputs == { None, Some(0), Some(1), Some(2) }
\* the name of the multipart field the body carries
FieldNames == { "file", "other" }

\* a catch-all arm that falls back to raw instead of rejecting
PutQueryFormatLenient(opts) ==
  LET name == IF opts.format = None THEN "dag-pb" ELSE opts.format[1]
  IN  CASE name = "dag-cbor" -> [ok |-> TRUE, err |-> "", val |-> "DagCBOR"]
        [] name = "dag-pb"   -> [ok |-> TRUE, err |-> "", val |-> "DagProtobuf"]
        [] name = "dag-json" -> [ok |-> TRUE, err |-> "", val |-> "DagJSON"]
        [] OTHER             -> [ok |-> TRUE, err |-> "", val |-> "Raw"]

\* PutQuery::format
PutQueryFormat(opts) ==
  LET name == IF opts.format = None THEN "dag-pb" ELSE opts.format[1]
  IN  CASE name = "dag-cbor" -> [ok |-> TRUE, err |-> "", val |-> "DagCBOR"]
        [] name = "dag-pb"   -> [ok |-> TRUE, err |-> "", val |-> "DagProtobuf"]
        [] name = "dag-json" -> [ok |-> TRUE, err |-> "", val |-> "DagJSON"]
        [] name = "raw"      -> [ok |-> TRUE, err |-> "", val |-> "Raw"]
        [] OTHER             -> [ok |-> FALSE, err |-> "unknown codec", val |-> ""]

\* PutQuery::digest: the name of the digest function
PutQueryDigest(opts) ==
  LET name == IF opts.mhtype = None THEN "sha2-256" ELSE opts.mhtype[1]
  IN  CASE name = "sha2-256" -> [ok |-> TRUE, err |-> "", val |-> "sha2-256"]
        [] name = "sha2-512" -> [ok |-> TRUE, err |-> "", val |-> "sha2-512"]
        [] OTHER             -> [ok |-> FALSE, err |-> "unknown hash", val |-> ""]

\* unwrap_or(1) in place of unwrap_or(0): an absent version resolves to V1
PutQueryVersionDefaultV1(opts) ==
  LET n == IF opts.version = None THEN 1 ELSE opts.version[1]
  IN  CASE n = 0 -> [ok |-> TRUE, err |-> "", val |-> "V0"]
        [] n = 1 -> [ok |-> TRUE, err |-> "", val |-> "V1"]
        [] OTHER -> [ok |-> FALSE, err |-> "invalid cid version", val |-> ""]

\* PutQuery::version
PutQueryVersion(opts) ==
  LET n == IF opts.version = None THEN 0 ELSE opts.version[1]
  IN  CASE n = 0 -> [ok |-> TRUE, err |-> "", val |-> "V0"]
        [] n = 1 -> [ok |-> TRUE, err |-> "", val |-> "V1"]
        [] OTHER -> [ok |-> FALSE, err |-> "invalid cid version", val |-> ""]

ErrResp(msg) == [NoResp EXCEPT !.kind = "err", !.msg = msg]

\* a request arrives at block/put: the query is deserialized, the content-type
\* header is read and the body stream is handed over unread
PutStart ==
  /\ CanStart
  /\ \E f \in FormatInputs, m \in MhtypeInputs, v \in VersionInputs, b \in {None, Some("boundary")} :
       put' = [NoPut EXCEPT !.pc = "boundary",
                            !.opts = Some([format |-> f, mhtype |-> m, version |-> v]),
                            !.boundary = b,
                            !.before = store]
  /\ req' = "put"
  /\ nreq' = nreq + 1
  /\ UNCHANGED <<hist, store, calls, resp, query, rm, putLog>>

\* inner_put: mime.get_param("boundary")
PutBoundary ==
  /\ req = "put" /\ put.pc = "boundary"
  /\ IF put.boundary = None
     THEN /\ resp' = ErrResp("missing 'boundary' on content-type")
          /\ put' = [put EXCEPT !.pc = "failed"]
     ELSE /\ resp' = resp
          /\ put' = [put EXCEPT !.pc = "collect"]
  /\ UNCHANGED <<hist, store, req, nreq, calls, query, rm, putLog>>

\* the field names inner_put accepts: &["data", "file"]
AcceptedFields == { "data", "file" }

\* try_only_named_multipart: one more chunk of the body is consumed
PutReadChunk ==
  /\ req = "put" /\ put.pc = "collect"
  /\ put.chunksRead < MaxChunks
  /\ \E c \in ChunkPool, f \in (IF put.field = "" THEN FieldNames ELSE {put.field}) :
       IF f \notin AcceptedFields
       THEN /\ put' = [put EXCEPT !.field = f, !.chunksRead = @ + 1]
            /\ resp' = resp
       ELSE IF ByteLen(put.buffer) + c.size > MaxBytes
            THEN /\ put' = [put EXCEPT !.field = f, !.chunksRead = @ + 1, !.pc = "failed"]
                 /\ resp' = ErrResp("payload too large")
            ELSE /\ put' = [put EXCEPT !.field = f, !.chunksRead = @ + 1, !.buffer = Append(@, c)]
                 /\ resp' = resp
  /\ UNCHANGED <<hist, store, req, nreq, calls, query, rm, putLog>>

\* try_only_named_multipart: the body ends
PutBodyEnd ==
  /\ req = "put" /\ put.pc = "collect"
  /\ IF put.field \in AcceptedFields
     THEN /\ put' = [put EXCEPT !.pc = "address"]
          /\ resp' = resp
     ELSE /\ put' = [put EXCEPT !.pc = "failed"]
          /\ resp' = ErrResp("missing required multipart field")
  /\ UNCHANGED <<hist, store, req, nreq, calls, query, rm, putLog>>

\* inner_put from opts.digest() to the call of ipfs.put_block(block)
PutAddress ==
  /\ req = "put" /\ put.pc = "address"
  /\ LET opts == put.opts[1]
         data == put.buffer
         d == PutQueryDigest(opts)
         v == PutQueryVersion(opts)
         f == PutQueryFormat(opts)
         c == CidNew(v.val, f.val, Digest(d.val, data))
         e == IF ~d.ok THEN d.err ELSE IF ~v.ok THEN v.err ELSE IF ~f.ok THEN f.err
              ELSE IF ~c.ok THEN c.err ELSE ""
     IN  IF e # ""
         THEN /\ resp' = ErrResp(e)
              /\ put' = [put EXCEPT !.pc = "failed"]
              /\ calls' = calls
         ELSE /\ resp' = resp
              /\ put' = [put EXCEPT !.pc = "store", !.block = Some([cid |-> c.cid[1], data |-> data])]
              /\ calls' = [calls EXCEPT !.put = @ + 1]
  /\ UNCHANGED <<hist, store, req, nreq, query, rm, putLog>>

\* the reply built whatever put_block returned
PutSettleIgnoreError ==
  /\ req = "put" /\ put.pc = "store"
  /\ LET block == put.block[1]
         key == CidToString(block.cid)
     IN  \E outcome \in {"ok", "io error"} :
           /\ store' = IF outcome = "ok" THEN StorePut(store, block.cid, block.data) ELSE store
           /\ resp' = [NoResp EXCEPT !.kind = "json", !.key = Some(key), !.size = ByteLen(block.data)]
           /\ putLog' = IF outcome = "ok"
                        THEN [k \in DOMAIN putLog \cup {key} |-> IF k = key THEN put.buffer ELSE putLog[k]]
                        ELSE putLog
           /\ put' = [put EXCEPT !.pc = "done"]
  /\ UNCHANGED <<hist, req, nreq, calls, query, rm>>

\* a store that refuses a block it already holds
PutSettleRefuseDuplicate ==
  /\ req = "put" /\ put.pc = "store"
  /\ LET block == put.block[1]
         key == CidToString(block.cid)
     IN  \E outcome \in (IF Has(store, block.cid) THEN {"block exists"} ELSE {"ok", "io error"}) :
           IF outcome = "ok"
           THEN /\ store' = StorePut(store, block.cid, block.data)
                /\ resp' = [NoResp EXCEPT !.kind = "json", !.key = Some(key), !.size = ByteLen(block.data)]
                /\ putLog' = [k \in DOMAIN putLog \cup {key} |-> IF k = key THEN put.buffer ELSE putLog[k]]
                /\ put' = [put EXCEPT !.pc = "done"]
           ELSE /\ store' = store
                /\ resp' = ErrResp(outcome)
                /\ putLog' = putLog
                /\ put' = [put EXCEPT !.pc = "failed"]
  /\ UNCHANGED <<hist, req, nreq, calls, query, rm>>

\* ipfs.put_block(block).await returns; the reply is {"Key": key, "Size": size}
PutSettle ==
  /\ req = "put" /\ put.pc = "store"
  /\ LET block == put.block[1]
         key == CidToString(block.cid)
     IN  \E outcome \in {"ok", "io error"} :
           IF outcome = "ok"
           THEN /\ store' = StorePut(store, block.cid, block.data)
                /\ resp' = [NoResp EXCEPT !.kind = "json", !.key = Some(key), !.size = ByteLen(block.data)]
                /\ putLog' = [k \in DOMAIN putLog \cup {key} |-> IF k = key THEN put.buffer ELSE putLog[k]]
                /\ put' = [put EXCEPT !.pc = "done"]
           ELSE /\ store' = store
                /\ resp' = ErrResp(outcome)
                /\ putLog' = putLog
                /\ put' = [put EXCEPT !.pc = "failed"]
  /\ UNCHANGED <<hist, req, nreq, calls, query, rm>>

\* ------------------------------------------------------------------ block/get, block/stat
\* what the store may answer to get(cid)
GetOutcomes(s, cid) == IF Has(s, cid) THEN {"ok", "io error"} ELSE {"block not found", "io error"}

\* a request arrives at block/get
GetStart ==
  /\ CanStart
  /\ \E arg \in ArgPool : query' = [arg |-> Some(arg), pc |-> "parse", cid |-> None]
  /\ req' = "get"
  /\ nreq' = nreq + 1
  /\ UNCHANGED <<hist, store, calls, resp, put, rm, putLog>>

\* an identifier that does not parse is looked up as the absent block
GetParseLenient ==
  /\ req = "get" /\ query.pc = "parse"
  /\ LET p == CidTryFrom(query.arg[1])
     IN  /\ query' = [query EXCEPT !.pc = "store", !.cid = IF p.ok THEN p.cid ELSE Some(AbsentCid)]
         /\ calls' = [calls EXCEPT !.get = @ + 1]
         /\ resp' = resp
  /\ UNCHANGED <<hist, store, req, nreq, put, rm, putLog>>

\* get_query: query.arg.parse(), then ipfs.get_block(&cid) is invoked
GetParse ==
  /\ req = "get" /\ query.pc = "parse"
  /\ LET p == CidTryFrom(query.arg[1])
     IN  IF p.ok
         THEN /\ query' = [query EXCEPT !.pc = "store", !.cid = p.cid]
              /\ calls' = [calls EXCEPT !.get = @ + 1]
              /\ resp' = resp
         ELSE /\ query' = [query EXCEPT !.pc = "failed"]
              /\ calls' = calls
              /\ resp' = ErrResp(p.err)
  /\ UNCHANGED <<hist, store, req, nreq, put, rm, putLog>>

\* the reply's body taken from another block of the store
GetSettleAnyBlock ==
  /\ req = "get" /\ query.pc = "store"
  /\ \E outcome \in GetOutcomes(store, query.cid[1]) :
       IF outcome = "ok"
       THEN /\ \E c \in DOMAIN store : resp' = [NoResp EXCEPT !.kind = "bytes", !.data = store[c]]
            /\ query' = [query EXCEPT !.pc = "done"]
       ELSE /\ resp' = ErrResp(outcome)
            /\ query' = [query EXCEPT !.pc = "failed"]
  /\ UNCHANGED <<hist, store, req, nreq, calls, put, rm, putLog>>

\* get_query: get_block returns; the reply's body is the block's data
GetSettle ==
  /\ req = "get" /\ query.pc = "store"
  /\ \E outcome \in GetOutcomes(store, query.cid[1]) :
       IF outcome = "ok"
       THEN /\ resp' = [NoResp EXCEPT !.kind = "bytes", !.data = store[query.cid[1]]]
            /\ query' = [query EXCEPT !.pc = "done"]
       ELSE /\ resp' = ErrResp(outcome)
            /\ query' = [query EXCEPT !.pc = "failed"]
  /\ UNCHANGED <<hist, store, req, nreq, calls, put, rm, putLog>>

\* a request arrives at block/stat
StatStart ==
  /\ CanStart
  /\ \E arg \in ArgPool : query' = [arg |-> Some(arg), pc |-> "parse", cid |-> None]
  /\ req' = "stat"
  /\ nreq' = nreq + 1
  /\ UNCHANGED <<hist, store, calls, resp, put, rm, putLog>>

\* stat_query: query.arg.parse(), then ipfs.get_block(&cid) is invoked
StatParse ==
  /\ req = "stat" /\ query.pc = "parse"
  /\ LET p == CidTryFrom(query.arg[1])
     IN  IF p.ok
         THEN /\ query' = [query EXCEPT !.pc = "store", !.cid = p.cid]
              /\ calls' = [calls EXCEPT !.get = @ + 1]
              /\ resp' = resp
         ELSE /\ query' = [query EXCEPT !.pc = "failed"]
              /\ calls' = calls
              /\ resp' = ErrResp(p.err)
  /\ UNCHANGED <<hist, store, req, nreq, put, rm, putLog>>

\* the reply's Key re-encoded from the parsed identifier
StatSettleCanonicalKey ==
  /\ req = "stat" /\ query.pc = "store"
  /\ \E outcome \in GetOutcomes(store, query.cid[1]) :
       IF outcome = "ok"
       THEN /\ resp' = [NoResp EXCEPT !.kind = "json", !.key = Some(CidToString(query.cid[1])),
                                      !.size = ByteLen(store[query.cid[1]])]
            /\ query' = [query EXCEPT !.pc = "done"]
       ELSE /\ resp' = ErrResp(outcome)
            /\ query' = [query EXCEPT !.pc = "failed"]
  /\ UNCHANGED <<hist, store, req, nreq, calls, put, rm, putLog>>

\* stat_query: get_block returns; the reply is {"Key": query.arg, "Size": block.data().len()}
StatSettle ==
  /\ req = "stat" /\ query.pc = "store"
  /\ \E outcome \in GetOutcomes(store, query.cid[1]) :
       IF outcome = "ok"
       THEN /\ resp' = [NoResp EXCEPT !.kind = "json", !.key = query.arg,
                                      !.size = ByteLen(store[query.cid[1]])]
            /\ query' = [query EXCEPT !.pc = "done"]
       ELSE /\ resp' = ErrResp(outcome)
            /\ query' = [query EXCEPT !.pc = "failed"]
  /\ UNCHANGED <<hist, store, req, nreq, calls, put, rm, putLog>>

Next ==
  \/ PutStart
  \/ PutBoundary
  \/ PutReadChunk
  \/ PutBodyEnd
  \/ PutAddress
  \/ PutSettle
  \/ GetStart
  \/ GetParse
  \/ GetSettle
  \/ StatStart
  \/ StatParse
  \/ StatSettle
  \/ RmStart(ServedArgs)
  \/ RmParse
  \/ RmIssue
  \/ \E i \in 1..MaxArgs : RmSettle(i)
  \/ RmPull
  \/ RmEnd
  \/ RmCancel
  \/ Close

Spec == Init /\ [][Next]_vars

\* ------------------------------------------------------------------ one rm batch
\* blocks stored by earlier Puts: a V0 block and a V1 raw block
PreloadA == [version |-> "V0", codec |-> "DagProtobuf", hash |-> Digest("sha2-256", <<[sym |-> "a", size |-> 524288]>>)]
PreloadB == [version |-> "V1", codec |-> "Raw", hash |-> Digest("sha2-512", <<>>)]

PreloadedStores ==
  { [c \in {PreloadA, PreloadB} |-> c.hash.digest] }

\* a store holding some blocks, one request left to serve
InitRm ==
  /\ store \in PreloadedStores
  /\ putLog = [k \in { CidToString(c) : c \in DOMAIN store } |-> k.cid[1].hash.digest]
  /\ req = "idle"
  /\ nreq = MaxRequests - 1
  /\ calls = NoCalls
  /\ resp = NoResp
  /\ query = NoQuery
  /\ put = NoPut
  /\ rm = NoRm
  /\ hist = None

NextRm ==
  \/ RmStart(MaxArgs)
  \/ RmParse
  \/ RmIssue
  \/ \E i \in 1..MaxArgs : RmSettle(i)
  \/ RmPull
  \/ RmEnd
  \/ RmCancel
  \/ Close

SpecRm == InitRm /\ [][NextRm]_vars

\* ------------------------------------------------------------------ a batch that is not dropped
\* a store holding one block, one request left to serve
InitRmLive ==
  /\ store = [c \in {PreloadA} |-> c.hash.digest]
  /\ putLog = [k \in { CidToString(c) : c \in DOMAIN store } |-> k.cid[1].hash.digest]
  /\ req = "idle"
  /\ nreq = MaxRequests - 1
  /\ calls = NoCalls
  /\ resp = NoResp
  /\ query = NoQuery
  /\ put = NoPut
  /\ rm = NoRm
  /\ hist = None

\* block/rm served to the end: the request is never dropped
NextRmLive ==
  \/ RmStart(MaxArgs)
  \/ RmParse
  \/ RmIssue
  \/ \E i \in 1..MaxArgs : RmSettle(i)
  \/ RmPull
  \/ RmEnd
  \/ Close

\* the executor polls the handler's future until it completes, every issued
\* remove settles, and the consumer keeps pulling the stream
FairnessRm ==
  /\ WF_vars(RmParse)
  /\ WF_vars(RmIssue)
  /\ \A i \in 1..MaxArgs : WF_vars(RmSettle(i))
  /\ WF_vars(RmPull)
  /\ WF_vars(RmEnd)

SpecRmLive == InitRmLive /\ [][NextRmLive]_vars /\ FairnessRm

\* ------------------------------------------------------------------ two Puts in a row
\* an empty store, two requests left to serve
InitPut ==
  /\ store = EmptyStore
  /\ putLog = EmptyStore
  /\ req = "idle"
  /\ nreq = MaxRequests - 2
  /\ calls = NoCalls
  /\ resp = NoResp
  /\ query = NoQuery
  /\ put = NoPut
  /\ rm = NoRm
  /\ hist = None

NextPut ==
  \/ PutStart
  \/ PutBoundary
  \/ PutReadChunk
  \/ PutBodyEnd
  \/ PutAddress
  \/ PutSettle
  \/ CloseRecorded

SpecPut == InitPut /\ [][NextPut]_vars

\* ------------------------------------------------------------------ properties of block/rm
\* the outcome of the remove operation of position i, as the store gave it
Settled(i) == rm.ops[i] \notin {"unissued", "pending"}
Failed(i) == Settled(i) /\ rm.ops[i] # "ok"
\* the identifier the i-th string of the request names
InputCid(i) == CidTryFrom(rm.args[i]).cid[1]
AllWellFormed == \A i \in 1..Len(rm.args) : rm.args[i].form # "malformed"

\* C1: batch removal preserves input order: whatever the order in which the
\* remove operations settle, the i-th collected result and the i-th emitted
\* record carry the i-th input identifier and the outcome of its own remove.
C1_OrderPreserved ==
  req = "rm" =>
    /\ \A i \in 1..Len(rm.collected) :
         /\ rm.collected[i].cid = InputCid(i)
         /\ Settled(i)
         /\ rm.collected[i].ok = (rm.ops[i] = "ok")
         /\ ~rm.collected[i].ok => rm.collected[i].err = rm.ops[i]
    /\ \A i \in 1..Len(rm.out) :
         ~rm.quiet =>
           /\ rm.out[i][1].Hash = CidToString(InputCid(i))
           /\ rm.out[i][1].Error = (IF rm.ops[i] = "ok" \/ rm.force THEN "" ELSE rm.ops[i])

\* C1 witness: three identifiers, the last settled first and the first last,
\* the first failed and the last succeeded, all three records emitted
C1_Witness ==
  /\ req = "rm" /\ rm.pc = "done"
  /\ Len(rm.args) = 3 /\ Len(rm.out) = 3
  /\ rm.lastFirst /\ rm.firstLast
  /\ ~rm.quiet /\ ~rm.force
  /\ Failed(1) /\ rm.ops[3] = "ok"
  /\ rm.out[1][1].Hash # rm.out[3][1].Hash

\* C2: a string of the rm list that does not parse rejects the whole request
\* with a validation error: no remove is invoked, also not for the
\* well-formed identifiers before or after it, and nothing is emitted.
C2_ParseErrorsBatchFatal ==
  (req = "rm" /\ ~AllWellFormed) =>
    /\ calls.remove = <<>>
    /\ rm.pc \in {"parsing", "rejected"}
    /\ rm.pc = "rejected" => rm.err = "failed to parse cid"
    /\ rm.ops = <<>> /\ rm.out = <<>>

\* C2 witness: a malformed string between two well-formed ones, rejected
C2_Witness ==
  /\ req = "rm" /\ rm.pc = "rejected"
  /\ Len(rm.args) = 3
  /\ rm.args[1].form # "malformed" /\ rm.args[2].form = "malformed" /\ rm.args[3].form # "malformed"
  /\ DOMAIN store # {}

\* C3: a store failure on one identifier aborts neither the batch nor its
\* siblings: the stream starts only when every position has settled, a
\* finished batch has emitted one record per input identifier, and without
\* force a failed item reports the store's message, a removed one "".
C3_PartialFailureIsolation ==
  (req = "rm" /\ AllWellFormed) =>
    /\ rm.pc # "rejected"
    /\ rm.pc \in {"streaming", "done"} =>
         /\ Len(rm.collected) = Len(rm.args)
         /\ \A i \in 1..Len(rm.args) : Settled(i)
    /\ rm.pc = "done" => Len(rm.out) = Len(rm.args)
    /\ (~rm.force /\ ~rm.quiet) =>
         \A i \in 1..Len(rm.out) :
           /\ Failed(i) => rm.out[i][1].Error = rm.ops[i] /\ rm.out[i][1].Error # ""
           /\ rm.ops[i] = "ok" => rm.out[i][1].Error = ""

\* C3 witness: [A, B], removing A failed and removing B succeeded, no force
C3_Witness ==
  /\ req = "rm" /\ rm.pc = "done"
  /\ Len(rm.args) = 2 /\ Len(rm.out) = 2
  /\ ~rm.force /\ ~rm.quiet
  /\ Failed(1) /\ rm.ops[2] = "ok"
  /\ rm.out[1][1].Error # "" /\ rm.out[2][1].Error = ""

\* C4: under force every record has an empty Error, removed or failed, and
\* carries the Hash of the identifier of its position; without force a failed
\* item's Error is the store's message.
C4_ForceSuppressesError ==
  (req = "rm" /\ ~rm.quiet) =>
    \A i \in 1..Len(rm.out) :
      /\ rm.force => (rm.out[i][1].Error = "" /\ rm.out[i][1].Hash = CidToString(InputCid(i)))
      /\ (~rm.force /\ Failed(i)) => rm.out[i][1].Error = rm.ops[i]

\* C4 witness: force, a failed and a removed item, both records emitted
C4_Witness ==
  /\ req = "rm" /\ rm.pc = "done" /\ rm.force /\ ~rm.quiet
  /\ Len(rm.out) = 2
  /\ Failed(1) /\ rm.ops[2] = "ok"
  /\ rm.out[1][1].Error = ""

\* C5: with quiet every emitted item is empty, and a finished batch has
\* emitted as many items as the request has identifiers, whatever the
\* outcomes and the force flag.
C5_QuietEmptyLines ==
  (req = "rm" /\ rm.quiet) =>
    /\ \A i \in 1..Len(rm.out) : rm.out[i] = <<>>
    /\ rm.pc = "done" => Len(rm.out) = Len(rm.args)

\* C5 witness: quiet without force, three identifiers, one failed, all emitted
C5_Witness ==
  /\ req = "rm" /\ rm.pc = "done" /\ rm.quiet /\ ~rm.force
  /\ Len(rm.args) = 3 /\ Len(rm.out) = 3
  /\ Failed(2) /\ rm.ops[1] = "ok"

\* C6: results are streamed incrementally: the consumer is kept waiting only
\* by the next position it has not been given, never by a later position of
\* the batch (while the batch is running and no record can be pulled, the
\* operation of the next position to emit has not settled).
C6_PullWaitsOnlyForNextPosition ==
  (req = "rm" /\ rm.pc = "running") => ~Settled(Len(rm.out) + 1)

\* ------------------------------------------------------------------ properties of block/put and block/get
\* the names and numbers PutQuery accepts
KnownFormats == { None, Some("dag-cbor"), Some("dag-pb"), Some("dag-json"), Some("raw") }
KnownMhtypes == { None, Some("sha2-256"), Some("sha2-512") }
KnownVersions == { None, Some(0), Some(1) }
OptsValid(o) == o.format \in KnownFormats /\ o.mhtype \in KnownMhtypes /\ o.version \in KnownVersions
\* the replies of the steps of inner_put that precede the addressing
CollectErrors == { "missing 'boundary' on content-type", "payload too large", "missing required multipart field" }
ConstructionErrors == { "invalid cid v0 codec", "invalid cid v0 multihash" }

\* C7: an unknown format, an unknown mhtype or an invalid version is rejected
\* before the request body is read: a Put with such an option has consumed no
\* chunk of its body.
C7_OptionsRejectedBeforeBody ==
  (req = "put" /\ ~OptsValid(put.opts[1])) => put.chunksRead = 0

\* C8: a Put that fails before the store call never invokes the store's put
\* and leaves the store as it was: a missing boundary, a missing field, a
\* payload over the bound, an unknown codec or hash, an invalid version or an
\* identifier that cannot be constructed.
C8_FailedPutLeavesStore ==
  req = "put" =>
    LET o == put.opts[1]
        v0 == o.version \in {None, Some(0)}
        nonDefault == o.format \notin {None, Some("dag-pb")} \/ o.mhtype \notin {None, Some("sha2-256")}
        mustFail == put.boundary = None \/ ~OptsValid(o) \/ (v0 /\ nonDefault)
                    \/ put.field \in FieldNames \ AcceptedFields
    IN  /\ mustFail => (calls.put = 0 /\ store = put.before /\ put.pc \notin {"store", "done"})
        /\ (resp.kind = "err" /\ resp.msg # "io error") =>
             (calls.put = 0 /\ store = put.before /\ put.block = None)
        /\ ByteLen(put.buffer) <= MaxBytes
        /\ put.block # None => put.block[1].data = put.buffer

\* C8 witness: a payload over the bound is rejected while the store holds a block
C8_Witness ==
  /\ req = "put" /\ resp.kind = "err" /\ resp.msg = "payload too large"
  /\ put.buffer # <<>> /\ OptsValid(put.opts[1])
  /\ DOMAIN store # {} /\ calls.put = 0

\* C9: a Put that resolves to version 0 (explicit 0 or absent) with a codec
\* other than dag-pb or a hash other than sha2-256 fails with a construction
\* error and stores nothing; with version 1 every codec and hash constructs
\* an identifier.
C9_V0NeedsDefaults ==
  (req = "put" /\ OptsValid(put.opts[1])) =>
    LET o == put.opts[1]
        v0 == o.version \in {None, Some(0)}
        nonDefault == o.format \notin {None, Some("dag-pb")} \/ o.mhtype \notin {None, Some("sha2-256")}
        addressed == put.pc \in {"store", "done"} \/ (put.pc = "failed" /\ resp.msg \notin CollectErrors)
    IN  /\ (v0 /\ nonDefault /\ addressed) =>
             /\ put.pc = "failed" /\ resp.kind = "err" /\ resp.msg \in ConstructionErrors
             /\ calls.put = 0 /\ store = put.before /\ put.block = None
        /\ (o.version = Some(1) /\ addressed) =>
             /\ put.block # None
             /\ put.block[1].cid.version = "V1"
             /\ resp.msg \notin ConstructionErrors
        /\ (v0 /\ ~nonDefault /\ addressed) =>
             (put.block # None /\ put.block[1].cid.version = "V0")

\* C9 witness: version absent, raw over sha2-512, a collected payload, rejected
C9_Witness ==
  /\ req = "put" /\ put.pc = "failed" /\ resp.msg \in ConstructionErrors
  /\ put.opts[1].version = None /\ put.opts[1].format = Some("raw")
  /\ put.buffer # <<>>

\* C10: a Get of the Key a successful Put returned, with no removal of it in
\* between, answers exactly the payload that Put collected; it fails only if
\* the store's get reports an I/O failure, never as not found.
C10_PutGetRoundTrip ==
  (req = "get" /\ query.pc \in {"done", "failed"} /\ query.arg[1] \in DOMAIN putLog) =>
    \/ resp.kind = "bytes" /\ resp.data = putLog[query.arg[1]]
    \/ resp.kind = "err" /\ resp.msg = "io error"

\* C10 witness: two blocks were put, the Get of one answers its non-empty payload
C10_Witness ==
  /\ req = "get" /\ resp.kind = "bytes" /\ resp.data # <<>>
  /\ query.arg[1] \in DOMAIN putLog
  /\ Cardinality(DOMAIN store) = 2

\* C11: Put is idempotent: a Put of the bytes and the addressing options of
\* the Put served just before it returns the same Key, fails only if the
\* store reports an I/O failure, and leaves the store as the first Put left it.
C11_PutIdempotent ==
  (req = "put" /\ hist # None) =>
    LET first == hist[1]
        addressed == put.pc \in {"store", "done"} \/ (put.pc = "failed" /\ resp.msg \notin CollectErrors)
    IN  (addressed /\ put.opts[1] = first.opts /\ put.buffer = first.data) =>
          /\ put.block # None /\ CidToString(put.block[1].cid) = first.key
          /\ put.pc = "failed" => resp.msg = "io error"
          /\ put.pc = "done" => (resp.kind = "json" /\ resp.key = Some(first.key))
          /\ store = first.store

\* C11 witness: the second Put of the same non-empty payload under version 1
\* with raw and sha2-512 has answered
C11_Witness ==
  /\ req = "put" /\ hist # None /\ put.pc = "done"
  /\ put.opts[1] = hist[1].opts /\ put.buffer = hist[1].data
  /\ put.buffer # <<>> /\ put.opts[1].version = Some(1) /\ put.opts[1].format = Some("raw")
  /\ resp.kind = "json"

\* C12: a Get or a Stat whose arg does not parse is rejected with the parse
\* error and the store is never called: get, put and remove are invoked zero times.
C12_UnparsableArgNoStoreCall ==
  (req \in {"get", "stat"} /\ ~CidTryFrom(query.arg[1]).ok) =>
    /\ calls = NoCalls
    /\ query.pc \in {"parse", "failed"}
    /\ query.cid = None
    /\ query.pc = "failed" => (resp.kind = "err" /\ resp.msg = "failed to parse cid")
    /\ query.pc = "parse" => resp = NoResp

\* C12 witness: a Get of a malformed arg has been rejected while the store holds a block
C12_Witness ==
  /\ req = "get" /\ query.arg = Some(Malformed) /\ query.pc = "failed"
  /\ resp.kind = "err" /\ DOMAIN store # {}

\* C17: Stat calls get once and nothing else; on success the reply's Key is the
\* arg as it was supplied and Size the length of the data the store holds; on
\* failure the reply is the error and carries no Key and no Size.
C17_StatReply ==
  req = "stat" =>
    /\ calls.put = 0 /\ calls.remove = <<>> /\ calls.get <= 1
    /\ query.pc \in {"store", "done"} => calls.get = 1
    /\ query.pc = "done" =>
         /\ resp.kind = "json" /\ resp.key = query.arg
         /\ Has(store, query.cid[1]) /\ resp.size = ByteLen(store[query.cid[1]])
    /\ query.pc = "failed" =>
         /\ resp.kind = "err" /\ resp.key = None /\ resp.size = 0
         /\ resp.msg \in {"block not found", "io error"} <=> calls.get = 1
    /\ resp.kind \in {"json", "err"} <=> query.pc \in {"done", "failed"}

\* C17 witness: a Stat asked under the other spelling of a stored identifier
\* has answered with a positive Size
C17_Witness ==
  /\ req = "stat" /\ query.pc = "done"
  /\ query.arg[1].form = "alt" /\ resp.key = query.arg /\ resp.size > 0

\* C18: Put answers Key and Size only after put_block succeeded; put_block is
\* invoked once, with the block whose identifier spells Key and whose data is
\* the collected payload of length Size; when put_block fails the reply is the
\* store's error, without Key or Size, and the store is as it was.
C18_PutReply ==
  req = "put" =>
    /\ calls.put <= 1 /\ calls.get = 0 /\ calls.remove = <<>>
    /\ calls.put = 1 <=> put.block # None
    /\ put.block # None => put.block[1].data = put.buffer
    /\ put.pc = "store" => (resp = NoResp /\ calls.put = 1)
    /\ resp.kind = "json" =>
         /\ put.pc = "done" /\ calls.put = 1
         /\ resp.key = Some(CidToString(put.block[1].cid))
         /\ resp.size = ByteLen(put.buffer)
         /\ Has(store, put.block[1].cid) /\ store[put.block[1].cid] = put.buffer
    /\ put.pc = "done" => resp.kind = "json"
    /\ put.pc = "failed" =>
         /\ resp.kind = "err" /\ resp.key = None /\ resp.size = 0
         /\ store = put.before
         /\ calls.put = 1 => resp.msg = "io error"

\* C18 witness: a Put of a non-empty payload has answered after one put_block
C18_Witness ==
  /\ req = "put" /\ put.pc = "done" /\ calls.put = 1
  /\ resp.kind = "json" /\ resp.size > 0 /\ put.before # store

\* the identifiers of the positions whose removal the store has applied
RemovedCids == { rm.cids[i] : i \in { j \in 1..Len(rm.ops) : rm.ops[j] = "ok" } }

\* the number of positions whose remove has been invoked
IssuedCount == Cardinality({ i \in 1..Len(rm.ops) : rm.ops[i] # "unissued" })

\* C13: force and quiet affect the reporting only: the remove calls and the
\* store are fixed by the identifier list and the store's answers, with no
\* part for the flags: the calls are the identifiers in list order, one per
\* position (no retry, whatever force is), all of them once the results are
\* collected, and the store is the one the batch found less the identifiers
\* whose removal succeeded.
C13_FlagsAffectReportingOnly ==
  (req = "rm" /\ rm.pc \in {"running", "streaming", "done", "cancelled"}) =>
    /\ Len(calls.remove) = IssuedCount
    /\ calls.remove = SubSeq(rm.cids, 1, Len(calls.remove))
    /\ rm.pc \in {"streaming", "done"} => calls.remove = rm.cids
    /\ store = [c \in DOMAIN rm.before \ RemovedCids |-> rm.before[c]]
    /\ calls.get = 0 /\ calls.put = 0

\* C13 witness: a batch with force set has ended with a failed and a
\* successful removal, each position having been called once
C13_Witness ==
  /\ req = "rm" /\ rm.pc = "done" /\ rm.force
  /\ \E i, j \in 1..Len(rm.ops) : Failed(i) /\ rm.ops[j] = "ok"
  /\ calls.remove = rm.cids /\ Len(rm.out) = Len(rm.cids)

\* C14: the removals are launched concurrently: while the batch runs, the
\* remove of the next unissued position can be invoked whatever the state of
\* the earlier ones, and every pending remove can settle, whether the earlier
\* positions are pending, failed or done.
C14_RemovalsConcurrent ==
  (req = "rm" /\ rm.pc = "running") =>
    /\ (\E i \in 1..Len(rm.ops) : rm.ops[i] = "unissued") => ENABLED RmIssue
    /\ \A j \in 1..Len(rm.ops) : rm.ops[j] = "pending" => ENABLED RmSettle(j)

\* C14 witness: the last of three positions has settled while the first is
\* pending and the second has failed
C14_Witness ==
  /\ req = "rm" /\ rm.pc = "running" /\ Len(rm.ops) = MaxArgs
  /\ rm.ops[1] = "pending" /\ Failed(MaxArgs)
  /\ \A j \in 2..(MaxArgs - 1) : Failed(j)

\* the steps of a batch: forward only, and a dropped request leaves the machine
BatchSteps ==
  { <<"parsing", "running">>, <<"parsing", "rejected">>, <<"running", "running">>,
    <<"running", "streaming">>, <<"streaming", "streaming">>, <<"streaming", "done">>,
    <<"running", "cancelled">>, <<"streaming", "cancelled">> }

\* a position's remove goes from not invoked to pending to settled, once
OpStepOK(before, after) ==
  \/ after = before
  \/ before = "unissued" /\ after = "pending"
  \/ before = "pending" /\ after \notin {"unissued", "pending"}

\* what holds of a batch in each state of the machine
BatchStateOK ==
  req = "rm" =>
    /\ rm.pc \in {"parsing", "rejected"} =>
         /\ rm.out = <<>> /\ calls.remove = <<>> /\ rm.ops = <<>> /\ store = rm.before
    /\ rm.pc = "rejected" <=> (rm.pc # "parsing" /\ ~AllWellFormed)
    /\ rm.pc \in {"running", "streaming", "done", "cancelled"} =>
         /\ Len(rm.cids) = Len(rm.args) /\ Len(rm.ops) = Len(rm.cids)
         /\ Len(calls.remove) = IssuedCount
    /\ rm.pc \in {"streaming", "done"} =>
         /\ calls.remove = rm.cids /\ \A i \in 1..Len(rm.ops) : Settled(i)
    /\ rm.pc = "done" => Len(rm.out) = Len(rm.cids)

\* C15: a batch goes Parsing -> Running -> Streaming -> Done or Parsing ->
\* Rejected and never backwards; nothing is emitted and no remove is invoked
\* in Parsing or Rejected; the remove of a position is invoked once and,
\* once settled, never again.
C15_BatchStateMachine ==
  [][ /\ (req = "rm" /\ req' = "rm" /\ rm'.pc # rm.pc) => <<rm.pc, rm'.pc>> \in BatchSteps
      /\ (req = "rm" /\ req' = "rm" /\ rm.pc # "parsing") =>
           /\ Len(rm'.ops) = Len(rm.ops)
           /\ \A i \in 1..Len(rm.ops) : OpStepOK(rm.ops[i], rm'.ops[i])
           /\ \E k \in 0..1 : calls'.remove = calls.remove \o SubSeq(rm.cids, Len(calls.remove) + 1, Len(calls.remove) + k)
           /\ SubSeq(rm'.out, 1, Len(rm.out)) = rm.out
      /\ (req # "rm" /\ req' = "rm") => rm'.pc = "parsing"
      /\ BatchStateOK' ]_vars

\* C15 witness: a batch naming one identifier twice has reached Done; the
\* first removal succeeded, the second failed, and each was invoked once
C15_Witness ==
  /\ req = "rm" /\ rm.pc = "done" /\ Len(rm.cids) >= 2
  /\ rm.cids[1] = rm.cids[2] /\ rm.ops[1] = "ok" /\ rm.ops[2] = "block not found"
  /\ calls.remove = rm.cids

\* C16: when a batch is dropped before completion, the removals that have
\* settled stay applied and nothing is rolled back; from then on no pending
\* operation settles, no record is emitted, no remove is invoked and the
\* store does not change.
C16_CancelAbandonsPending ==
  [][ /\ (req = "rm" /\ rm.pc # "cancelled" /\ rm'.pc = "cancelled") =>
           /\ rm.pc \in {"running", "streaming"}
           /\ store' = store /\ rm'.ops = rm.ops /\ rm'.out = rm.out /\ calls' = calls
           /\ store = [c \in DOMAIN rm.before \ RemovedCids |-> rm.before[c]]
      /\ (req = "rm" /\ rm.pc = "cancelled") =>
           /\ store' = store
           /\ req' = "rm" => (rm' = rm /\ calls' = calls)
           /\ req' # "rm" => (req' = "idle" /\ rm' = NoRm /\ calls' = NoCalls)
      /\ (req = "rm" /\ rm.pc = "cancelled" /\ rm.out # <<>>) => \A i \in 1..Len(rm.ops) : Settled(i) ]_vars

\* C16 witness: a batch was dropped with its first remove pending and a later
\* one applied: the removed identifiers are not a prefix of the list
C16_Witness ==
  /\ req = "rm" /\ rm.pc = "cancelled" /\ Len(rm.ops) >= 2
  /\ rm.ops[1] = "pending" /\ rm.ops[2] = "ok"
  /\ Has(store, rm.cids[1]) /\ ~Has(store, rm.cids[2]) /\ Has(rm.before, rm.cids[2])

\* C19: a batch whose list has parsed ends: when every issued remove settles
\* and the consumer keeps pulling and never drops the request, the batch
\* reaches Done with one record emitted per identifier of the list.
C19_BatchTerminates ==
  (req = "rm" /\ rm.pc = "running") ~>
    (req = "rm" /\ rm.pc = "done" /\ Len(rm.out) = Len(rm.args) /\ Len(rm.args) >= 1)

\* C19 witness: a batch of the longest list has reached Done, its first
\* remove having settled last and failed
C19_Witness ==
  /\ req = "rm" /\ rm.pc = "done" /\ Len(rm.args) = MaxArgs
  /\ Len(rm.out) = MaxArgs /\ rm.firstLast /\ Failed(1)

====
